---- MODULE Spec2Model ----
(***************************************************************************)
(* lista_size.c: enumerate the entries of the current directory and write  *)
(* "<name>\t<size>\r\n" for every non-directory entry to C:\tmp\lista_sz.   *)
(*                                                                         *)
(* The model is the control flow of main() plus the part of the Win32      *)
(* environment main() talks to: the directory C:\tmp, the output file, the *)
(* directory listing behind FindFirstFileA/FindNextFileA, the table of     *)
(* open handles, the thread's last-error value, stdout and stderr.         *)
(* Strings are sequences of byte codes.  A ULONGLONG is four 16-bit limbs, *)
(* most significant first, so that every value stays within TLC's integers. *)
(***************************************************************************)
EXTENDS Integers, Sequences, FiniteSets, TLC

\* ---------------------------------------------------------------- bounds
MaxEntries == 3        \* longest directory listing

\* ------------------------------------------------------ program constants
BUFFER_SIZE == 512
INVALID_HANDLE_VALUE == "INVALID_HANDLE_VALUE"
ERROR_ALREADY_EXISTS == 183
ERROR_NO_MORE_FILES == 18
FILE_ATTRIBUTE_DIRECTORY == 16

\* Win32 error codes the environment may hand back besides the two the
\* program tests for: ERROR_FILE_NOT_FOUND, ERROR_ACCESS_DENIED, ERROR_DISK_FULL.
NothingFound == {2}
OtherErrors == {5, 112}

TAB == 9
CR == 13
LF == 10

\* ------------------------------------------------------------- bit helpers
RECURSIVE BitAnd(_, _)
BitAnd(a, b) ==
    IF a = 0 \/ b = 0 THEN 0
    ELSE (IF a % 2 = 1 /\ b % 2 = 1 THEN 1 ELSE 0) + 2 * BitAnd(a \div 2, b \div 2)

RECURSIVE BitOr(_, _)
BitOr(a, b) ==
    IF a = 0 THEN b
    ELSE IF b = 0 THEN a
    ELSE (IF a % 2 = 1 \/ b % 2 = 1 THEN 1 ELSE 0) + 2 * BitOr(a \div 2, b \div 2)

\* (ULONGLONG)d for a DWORD d: zero-extended to four limbs.
Cast64(d) == <<0, 0, d \div 65536, d % 65536>>

\* The shift done in 32 bits, before the widening: every bit of the DWORD
\* falls off, and the high word is lost.
Shl32Narrow(x) == <<0, 0, 0, 0>>

\* x << 32 on a ULONGLONG: the two low limbs move up, the two high ones fall off.
Shl32(x) == <<x[3], x[4], 0, 0>>

Or64(x, y) == [i \in 1..4 |-> BitOr(x[i], y[i])]

\* line 74: ((ULONGLONG)nFileSizeHigh << 32) | nFileSizeLow
FileSize(fd) == Or64(Shl32(Cast64(fd.nFileSizeHigh)), Cast64(fd.nFileSizeLow))

\* ------------------------------------------------------- %llu of snprintf
IsZero64(x) == \A i \in 1..4 : x[i] = 0

RECURSIVE DivStep(_, _, _, _)
DivStep(x, i, c, q) ==
    IF i > 4 THEN [q |-> q, r |-> c]
    ELSE LET cur == c * 65536 + x[i]
         IN DivStep(x, i + 1, cur % 10, Append(q, cur \div 10))

Div10(x) == DivStep(x, 1, 0, <<>>)

RECURSIVE Llu(_)
Llu(x) ==
    LET d == Div10(x)
    IN IF IsZero64(d.q) THEN <<48 + d.r>> ELSE Llu(d.q) \o <<48 + d.r>>

Min(a, b) == IF a < b THEN a ELSE b

\* snprintf(buffer, BUFFER_SIZE, "%s\t%llu\r\n", name, size): the return value
\* is the length the whole line needs; the buffer holds at most
\* BUFFER_SIZE - 1 bytes of it, followed by the terminating NUL.
Snprintf(name, size) ==
    LET full == name \o <<TAB>> \o Llu(size) \o <<CR, LF>>
    IN [ret |-> Len(full),
        buf |-> SubSeq(full, 1, Min(Len(full), BUFFER_SIZE - 1)) \o <<0>>]

\* ------------------------------------------------- the code's conditions
\* line 69
IsDirectoryEq(fd) == fd.dwFileAttributes = FILE_ATTRIBUTE_DIRECTORY
IsDirectory(fd) == BitAnd(fd.dwFileAttributes, FILE_ATTRIBUTE_DIRECTORY) # 0

\* line 80
FormatFailsOffByOne(n) == n < 0 \/ n > BUFFER_SIZE
FormatFails(n) == n < 0 \/ n >= BUFFER_SIZE

\* line 33
DirCreateFatalAlways(code) == TRUE
DirCreateFatal(code) == code # ERROR_ALREADY_EXISTS

\* line 103
EnumFailedNever(code) == FALSE
EnumFailed(code) == code # ERROR_NO_MORE_FILES

\* CreateFileA(..., CREATE_ALWAYS, ...): whatever the file held is discarded.
OpenExistingKeep(old) == old
CreateAlways(old) == <<>>

\* --------------------------------------------------------- the directory
\* The entries the enumerator may return.  Names are unique within a
\* listing.  The line of NameFit is BUFFER_SIZE - 1 bytes long and fits; the
\* line of NameOver is BUFFER_SIZE bytes long and does not.  No bound on the
\* length of cFileName is assumed from windows.h: the test of line 80 is
\* what decides whether a name is written.
NameDot == <<46>>
NameSub == <<115, 117, 98>>
NameA == <<97, 46, 116, 120, 116>>
NameFit == [i \in 1..(BUFFER_SIZE - 14) |-> 98]
NameOver == [i \in 1..(BUFFER_SIZE - 4) |-> 120]

Entry(n, a, h, l) ==
    [cFileName |-> n, dwFileAttributes |-> a, nFileSizeHigh |-> h, nFileSizeLow |-> l]

Pool ==
    { Entry(NameDot, 16, 0, 0),        \* "."      directory
      Entry(NameSub, 17, 0, 0),        \* "sub"    read-only directory
      Entry(NameA, 32, 0, 5),          \* "a.txt"  5 bytes
      Entry(NameFit, 32, 1, 70000),    \* 2^32 + 70000 bytes
      Entry(NameOver, 128, 0, 7) }     \* 7 bytes, line too long

RECURSIVE ListingsOfLen(_)
ListingsOfLen(n) ==
    IF n = 0 THEN {<<>>}
    ELSE { Append(s, e) : s \in ListingsOfLen(n - 1), e \in Pool }

Injective(s) == \A i, j \in 1..Len(s) : i # j => s[i].cFileName # s[j].cFileName

Listings ==
    { s \in UNION { ListingsOfLen(n) : n \in 0..MaxEntries } : Injective(s) }

\* ------------------------------------------------------------------ state
VARIABLES
    pc,             \* position in main; "gone" between two runs
    before,         \* the output file when this run started: "absent", "empty" or "bytes"
    tmpExists,      \* C:\tmp exists
    fileExists,     \* C:\tmp\lista_sz exists
    file,           \* its content
    dir,            \* the listing of the current directory, in enumerator order
    pos,            \* enumerator cursor: index in dir of the entry last returned
    findFileData,   \* WIN32_FIND_DATAA findFileData
    hFind, hFile,   \* the two handles of main
    dwBytesWritten, result, dwError,
    lastError,      \* the thread's last-error value (GetLastError)
    out, err,       \* stdout and stderr, one record per line printed
    exitCode,       \* -1 while the process runs
    open,           \* handles the OS holds open for the process
    acquired,       \* handles the OS has handed out in this run
    closes,         \* per handle, how many times it was closed in this run
    wrote,          \* per entry the loop body ran on, the bytes appended for it
    wfail,          \* index of the entry whose WriteFile failed, 0 if none
    nextErr,        \* last-error code of the FindNextFileA call that returned 0, 0 if none
    setup           \* the setup call the environment failed: "dir", "file", "find", or "none"

vars == <<pc, before, tmpExists, fileExists, file, dir, pos, findFileData, hFind, hFile,
          dwBytesWritten, result, dwError, lastError, out, err, exitCode,
          open, acquired, closes, wrote, wfail, nextErr, setup>>

disk == <<tmpExists, fileExists, file>>
locals == <<hFind, hFile, dwBytesWritten, result, dwError>>
ghosts == <<wrote, wfail, nextErr>>
handles == <<open, acquired, closes>>

Handles == {"file", "find"}
NoEntry == Entry(<<>>, 0, 0, 0)

\* What is at the output path.
FileState == IF ~fileExists THEN "absent" ELSE IF file = <<>> THEN "empty" ELSE "bytes"

Msg(m, c, n) == [msg |-> m, code |-> c, name |-> n]

\* lines 16-28: the locals as declared, and the banner.
Fresh ==
    /\ pc = "start"
    /\ pos = 0
    /\ findFileData = NoEntry
    /\ hFind = INVALID_HANDLE_VALUE
    /\ hFile = INVALID_HANDLE_VALUE
    /\ dwBytesWritten = 0
    /\ result = 0
    /\ dwError = 0
    /\ lastError = 0
    /\ out = <<"banner">>
    /\ err = <<>>
    /\ exitCode = -1
    /\ open = {}
    /\ acquired = {}
    /\ closes = [h \in Handles |-> 0]
    /\ wrote = <<>>
    /\ wfail = 0
    /\ nextErr = 0
    /\ setup = "none"

Init ==
    /\ Fresh
    /\ before = "absent"
    /\ tmpExists \in BOOLEAN
    /\ fileExists = FALSE
    /\ file = <<>>
    /\ dir \in Listings


\* ---------------------------------------------------------- Win32 effects
\* CloseHandle / FindClose of a handle: the OS drops it, the call is counted.
Closed(o, h) == o \ {h}
Counted(c, h) == [c EXCEPT ![h] = @ + 1]

\* -------------------------------------------------------------- lines 30-37
\* CreateDirectoryA succeeds: C:\tmp did not exist and does now.
CreateDirOk ==
    /\ pc = "start"
    /\ ~tmpExists
    /\ tmpExists' = TRUE
    /\ pc' = "open"
    /\ UNCHANGED <<before, fileExists, file, dir, pos, findFileData, locals, lastError,
                   out, err, exitCode, handles, ghosts, setup>>

\* CreateDirectoryA returns 0: with ERROR_ALREADY_EXISTS when the path exists,
\* with another code when it could not be created.  Only the latter ends the
\* run (return 1 at line 35).
CreateDirFail ==
    /\ pc = "start"
    /\ \E code \in (IF tmpExists THEN {ERROR_ALREADY_EXISTS} ELSE OtherErrors) :
          /\ lastError' = code
          /\ dwError' = code
          /\ setup' = IF code = ERROR_ALREADY_EXISTS THEN "none" ELSE "dir"
          /\ IF DirCreateFatal(code)
             THEN /\ err' = Append(err, Msg("ErrCreateDir", code, <<>>))
                  /\ pc' = "exit"
                  /\ exitCode' = 1
             ELSE /\ pc' = "open"
                  /\ UNCHANGED <<err, exitCode>>
    /\ UNCHANGED <<before, disk, dir, pos, findFileData, hFind, hFile, dwBytesWritten,
                   result, out, handles, ghosts>>

\* -------------------------------------------------------------- lines 39-54
\* CreateFileA(OUTPUT_FILE, GENERIC_WRITE, 0, NULL, CREATE_ALWAYS, ...) succeeds.
\* With CREATE_ALWAYS the last-error value is ERROR_ALREADY_EXISTS when the
\* file was there, 0 otherwise.
CreateFileOk ==
    /\ pc = "open"
    /\ tmpExists
    /\ hFile' = "file"
    /\ fileExists' = TRUE
    /\ file' = CreateAlways(file)
    /\ lastError' = IF fileExists THEN ERROR_ALREADY_EXISTS ELSE 0
    /\ open' = open \cup {"file"}
    /\ acquired' = acquired \cup {"file"}
    /\ pc' = "find"
    /\ UNCHANGED <<before, tmpExists, dir, pos, findFileData, hFind, dwBytesWritten,
                   result, dwError, out, err, exitCode, closes, ghosts, setup>>

\* CreateFileA returns INVALID_HANDLE_VALUE: reported, return 1 (line 53).
\* The file on disk is left as it was.
CreateFileFail ==
    /\ pc = "open"
    /\ \E code \in OtherErrors :
          /\ lastError' = code
          /\ dwError' = code
          /\ setup' = "file"
          /\ err' = Append(err, Msg("ErrCreateFile", code, <<>>))
    /\ hFile' = INVALID_HANDLE_VALUE
    /\ pc' = "exit"
    /\ exitCode' = 1
    /\ UNCHANGED <<before, disk, dir, pos, findFileData, hFind, dwBytesWritten, result,
                   out, handles, ghosts>>

\* -------------------------------------------------------------- lines 56-64
\* FindFirstFileA("*", &findFileData) succeeds: the first entry is returned.
FindFirstOk ==
    /\ pc = "find"
    /\ Len(dir) > 0
    /\ hFind' = "find"
    /\ findFileData' = dir[1]
    /\ pos' = 1
    /\ open' = open \cup {"find"}
    /\ acquired' = acquired \cup {"find"}
    /\ pc' = "body"
    /\ UNCHANGED <<before, disk, dir, hFile, dwBytesWritten, result, dwError, lastError,
                   out, err, exitCode, closes, ghosts, setup>>

\* FindFirstFileA returns INVALID_HANDLE_VALUE (nothing matches, or an error):
\* reported, CloseHandle(hFile), return 1 (lines 60-63).
FindFirstFail ==
    /\ pc = "find"
    /\ \E code \in (IF Len(dir) = 0 THEN NothingFound ELSE {}) \cup OtherErrors :
          /\ lastError' = code
          /\ dwError' = code
          /\ setup' = "find"
          /\ err' = Append(err, Msg("ErrFindFirst", code, <<>>))
    /\ hFind' = INVALID_HANDLE_VALUE
    /\ open' = Closed(open, hFile)
    /\ closes' = Counted(closes, hFile)
    /\ pc' = "exit"
    /\ exitCode' = 1
    /\ UNCHANGED <<before, disk, dir, pos, findFileData, hFile, dwBytesWritten, result,
                   out, acquired, ghosts>>


\* -------------------------------------------------------------- lines 66-99
\* Where the loop body leaves to: `continue` in a do-while goes to the loop
\* condition (the FindNextFileA call of line 99); `break` goes past the loop.
ContinueTarget == "next"
BreakTargetContinue == "next"
BreakTarget == "check"

\* lines 69-71: a directory entry is skipped.
SkipDirectory ==
    /\ pc = "body"
    /\ IsDirectory(findFileData)
    /\ wrote' = Append(wrote, 0)
    /\ pc' = ContinueTarget
    /\ UNCHANGED <<before, disk, dir, pos, findFileData, locals, lastError, out, err,
                   exitCode, handles, wfail, nextErr, setup>>

\* lines 74-84: the line does not fit the buffer; reported, entry skipped.
FormatError ==
    /\ pc = "body"
    /\ ~IsDirectory(findFileData)
    /\ FormatFails(Snprintf(findFileData.cFileName, FileSize(findFileData)).ret)
    /\ err' = Append(err, Msg("ErrFormat", 0, findFileData.cFileName))
    /\ wrote' = Append(wrote, 0)
    /\ pc' = ContinueTarget
    /\ UNCHANGED <<before, disk, dir, pos, findFileData, locals, lastError, out,
                   exitCode, handles, wfail, nextErr, setup>>

\* The byte counts WriteFile may report for a request of n bytes.
WrittenCounts(n) == {0, n - 1, n}

\* line 94
WrittenAll(w, n) == w = n

\* lines 87-97, WriteFile returns TRUE: it took the first k of the
\* bytesFormatted bytes of the buffer.  When k is not bytesFormatted a
\* warning is printed, and either way the loop goes on.
WriteDone ==
    /\ pc = "body"
    /\ ~IsDirectory(findFileData)
    /\ LET f == Snprintf(findFileData.cFileName, FileSize(findFileData))
       IN /\ ~FormatFails(f.ret)
          /\ \E k \in WrittenCounts(f.ret) :
                /\ file' = file \o SubSeq(f.buf, 1, k)
                /\ dwBytesWritten' = k
                /\ wrote' = Append(wrote, k)
                /\ IF WrittenAll(k, f.ret)
                   THEN err' = err
                   ELSE err' = Append(err, Msg("WarnShort", 0, findFileData.cFileName))
    /\ pc' = "next"
    /\ UNCHANGED <<before, tmpExists, fileExists, dir, pos, findFileData, hFind, hFile,
                   result, dwError, lastError, out, exitCode, handles, wfail, nextErr, setup>>

\* lines 87-92, WriteFile returns FALSE: reported, result = 1, break.
\* Nothing is appended.
WriteFail ==
    /\ pc = "body"
    /\ ~IsDirectory(findFileData)
    /\ ~FormatFails(Snprintf(findFileData.cFileName, FileSize(findFileData)).ret)
    /\ \E code \in OtherErrors :
          /\ lastError' = code
          /\ dwError' = code
          /\ err' = Append(err, Msg("ErrWrite", code, <<>>))
    /\ result' = 1
    /\ wrote' = Append(wrote, 0)
    /\ wfail' = pos
    /\ pc' = BreakTarget
    /\ UNCHANGED <<before, disk, dir, pos, findFileData, hFind, hFile, dwBytesWritten,
                   out, exitCode, handles, nextErr, setup>>

\* line 99, FindNextFileA returns nonzero: the next entry is in findFileData.
FindNextOk ==
    /\ pc = "next"
    /\ pos < Len(dir)
    /\ pos' = pos + 1
    /\ findFileData' = dir[pos + 1]
    /\ pc' = "body"
    /\ UNCHANGED <<before, disk, dir, locals, lastError, out, err, exitCode, handles, ghosts, setup>>

\* line 99, FindNextFileA returns 0 at the end of the listing.
FindNextEnd ==
    /\ pc = "next"
    /\ pos = Len(dir)
    /\ lastError' = ERROR_NO_MORE_FILES
    /\ nextErr' = ERROR_NO_MORE_FILES
    /\ pc' = "check"
    /\ UNCHANGED <<before, disk, dir, pos, findFileData, locals, out, err, exitCode,
                   handles, wrote, wfail, setup>>

\* line 99, FindNextFileA returns 0 because of an error.
FindNextFail ==
    /\ pc = "next"
    /\ \E code \in OtherErrors :
          /\ lastError' = code
          /\ nextErr' = code
    /\ pc' = "check"
    /\ UNCHANGED <<before, disk, dir, pos, findFileData, locals, out, err, exitCode,
                   handles, wrote, wfail, setup>>

\* ------------------------------------------------------------ lines 101-106
\* dwError = GetLastError(): the thread's last-error value, whichever call set it.
CheckEnum ==
    /\ pc = "check"
    /\ dwError' = lastError
    /\ IF EnumFailed(lastError)
       THEN /\ err' = Append(err, Msg("ErrEnum", lastError, <<>>))
            /\ result' = 1
       ELSE UNCHANGED <<err, result>>
    /\ pc' = "cleanup"
    /\ UNCHANGED <<before, disk, dir, pos, findFileData, hFind, hFile, dwBytesWritten,
                   lastError, out, exitCode, handles, ghosts, setup>>

\* ------------------------------------------------------------ lines 108-121
\* lines 109 and 113: a handle is closed when it is not INVALID_HANDLE_VALUE.
ShouldCloseNever(h) == FALSE
ShouldClose(h) == h # INVALID_HANDLE_VALUE

\* line 117
SucceededAlways(r) == TRUE
Succeeded(r) == r = 0

ToClose == {h \in {hFind, hFile} : ShouldClose(h)}

Cleanup ==
    /\ pc = "cleanup"
    /\ open' = open \ ToClose
    /\ closes' = [h \in Handles |-> IF h \in ToClose THEN closes[h] + 1 ELSE closes[h]]
    /\ out' = IF Succeeded(result) THEN Append(out, "success") ELSE out
    /\ exitCode' = result
    /\ pc' = "exit"
    /\ UNCHANGED <<before, disk, dir, pos, findFileData, locals, lastError, err,
                   acquired, ghosts, setup>>

\* --------------------------------------------------------------- next run
\* The process is gone: nothing of it is left but C:\tmp and the output file.
ProcessExit ==
    /\ pc = "exit"
    /\ pc' = "gone"
    /\ dir' = <<>>
    /\ before' = "absent"
    /\ pos' = 0
    /\ findFileData' = NoEntry
    /\ hFind' = INVALID_HANDLE_VALUE
    /\ hFile' = INVALID_HANDLE_VALUE
    /\ dwBytesWritten' = 0
    /\ result' = 0
    /\ dwError' = 0
    /\ lastError' = 0
    /\ out' = <<"banner">>
    /\ err' = <<>>
    /\ exitCode' = -1
    /\ open' = {}
    /\ acquired' = {}
    /\ closes' = [h \in Handles |-> 0]
    /\ wrote' = <<>>
    /\ wfail' = 0
    /\ nextErr' = 0
    /\ setup' = "none"
    /\ UNCHANGED disk

\* The program is started again; C:\tmp and the output file are as the
\* previous run left them, the current directory may list anything.
Rerun ==
    /\ pc = "gone"
    /\ pc' = "start"
    /\ dir' \in Listings
    /\ before' = FileState
    /\ UNCHANGED <<disk, pos, findFileData, locals, lastError, out, err, exitCode,
                   handles, ghosts, setup>>

Next ==
    \/ CreateDirOk \/ CreateDirFail
    \/ CreateFileOk \/ CreateFileFail
    \/ FindFirstOk \/ FindFirstFail
    \/ SkipDirectory \/ FormatError
    \/ WriteDone \/ WriteFail
    \/ FindNextOk \/ FindNextEnd \/ FindNextFail
    \/ CheckEnum
    \/ Cleanup
    \/ ProcessExit \/ Rerun

Spec == Init /\ [][Next]_vars

TypeOK ==
    /\ pc \in {"start", "open", "find", "body", "next", "check", "cleanup", "exit", "gone"}
    /\ before \in {"absent", "empty", "bytes"}
    /\ exitCode \in {-1, 0, 1}
    /\ result \in {0, 1}
    /\ pos \in 0..Len(dir)


\* ------------------------------------------------------------------------
\* What the claims are measured against: the directory as it truly is, by
\* entry name (not through the program's reading of the attributes and of
\* the two size words).
TrueIsDir(e) == e.cFileName \in {NameDot, NameSub}

\* The decimal text of the true byte length.
TrueSizeText(e) ==
    CASE e.cFileName = NameA -> <<53>>                                      \* 5
      [] e.cFileName = NameFit -> <<52, 50, 57, 53, 48, 51, 55, 50, 57, 54>> \* 4295037296
      [] e.cFileName = NameOver -> <<55>>                                   \* 7
      [] OTHER -> <<48>>                                                    \* 0

TrueLine(e) == e.cFileName \o <<TAB>> \o TrueSizeText(e) \o <<CR, LF>>

AllFiles(d) == \A i \in 1..Len(d) : ~TrueIsDir(d[i])

RECURSIVE AllLines(_)
AllLines(d) == IF d = <<>> THEN <<>> ELSE TrueLine(Head(d)) \o AllLines(Tail(d))

\* The bytes the first n entries of the listing left in the file, given how
\* many bytes the OS took for each: a prefix of each entry's true line.
RECURSIVE ExpectedUpTo(_)
ExpectedUpTo(n) ==
    IF n = 0 THEN <<>>
    ELSE ExpectedUpTo(n - 1) \o SubSeq(TrueLine(dir[n]), 1, wrote[n])

Reported(m) == \E j \in 1..Len(err) : err[j].msg = m
ReportedFor(m, n) == \E j \in 1..Len(err) : err[j].msg = m /\ err[j].name = n
ReportedCode(m, c) == \E j \in 1..Len(err) : err[j].msg = m /\ err[j].code = c
SuccessLines == Cardinality({j \in 1..Len(out) : out[j] = "success"})

Opened == "file" \in acquired
LoopLeft == pc \in {"check", "cleanup", "exit"}
Fatal == setup # "none" \/ wfail # 0 \/ nextErr \notin {0, ERROR_NO_MORE_FILES}

\* C1: every handle the run acquired is closed exactly once by the time the
\* process exits, none is left open, and a handle never acquired is never closed.
C1_HandlesReleased ==
    /\ open \subseteq acquired
    /\ \A h \in Handles : closes[h] <= 1 /\ (h \notin acquired => closes[h] = 0)
    /\ pc = "exit" =>
          /\ open = {}
          /\ \A h \in Handles : closes[h] = IF h \in acquired THEN 1 ELSE 0

\* The loop was left by break, both handles had been acquired, the process exited.
C1_Witness == pc = "exit" /\ wfail # 0 /\ acquired = Handles /\ open = {}

\* C2: at exit, the exit code is 0 and the success line is printed (once)
\* exactly when no fatal condition occurred; otherwise the exit code is 1 and
\* no success line is printed.
C2_ExitCode ==
    pc = "exit" =>
        IF Fatal THEN exitCode = 1 /\ SuccessLines = 0
        ELSE exitCode = 0 /\ SuccessLines = 1

\* A run that reported a per-entry error and still succeeded.
C2_Witness == pc = "exit" /\ exitCode = 0 /\ SuccessLines = 1 /\ Reported("WarnShort")


NoEntryError == ~Reported("ErrFormat") /\ ~Reported("WarnShort")

\* C3 as stated: at the end of every run over a directory holding only files,
\* the output file is the true lines of all the entries, in listing order.
C3_Original ==
    (pc = "exit" /\ AllFiles(dir)) => file = AllLines(dir)

\* C3, amended: at the end of every run over a directory holding only files
\* that exits with code 0 and reported no per-entry error, the output file is
\* the true lines "<name>\t<size>\r\n" of all the entries, in listing order.
C3_Amended ==
    (pc = "exit" /\ AllFiles(dir) /\ exitCode = 0 /\ NoEntryError)
        => file = AllLines(dir)

\* Such a run over two files, one of them larger than 4 GiB.
C3_Witness ==
    /\ pc = "exit" /\ exitCode = 0 /\ NoEntryError
    /\ AllFiles(dir) /\ Len(dir) = 2
    /\ \E i \in 1..Len(dir) : dir[i].cFileName = NameFit

\* The state part and the step part of C4.
C4_State ==
    /\ \A i \in 1..Len(wrote) : TrueIsDir(dir[i]) => wrote[i] = 0
    /\ \A i \in 1..Len(dir) : TrueIsDir(dir[i]) => ~ReportedFor("ErrFormat", dir[i].cFileName)
                                                   /\ ~ReportedFor("WarnShort", dir[i].cFileName)
    /\ Opened => file = ExpectedUpTo(Len(wrote))

C4_Step ==
    (pc = "body" /\ TrueIsDir(findFileData))
        => (pc' = "next" /\ file' = file /\ err' = err /\ pos' = pos)

\* C4: at every point of a run the file holds nothing for a directory entry
\* (the file is exactly the bytes taken for the non-directory entries, and no
\* format error is reported for a directory), and a step that finds a
\* directory entry in the loop body goes to the FindNextFileA call, leaving
\* the file and stderr alone.
C4_DirectoriesSkipped == []C4_State /\ [][C4_Step]_vars

\* A read-only directory was skipped and the entry after it got its line.
C4_Witness ==
    \E i \in 1..Len(wrote) :
        /\ i > 1
        /\ dir[i - 1].cFileName = NameSub
        /\ wrote[i] = Len(TrueLine(dir[i]))

\* The true line of the entry fits the buffer with its terminating NUL.
Fits(e) == Len(TrueLine(e)) < BUFFER_SIZE

\* C5: a per-entry error never ends the loop (the loop is left only by a
\* hard write failure or by FindNextFileA returning 0); an entry whose line
\* does not fit adds no byte and is reported; an entry whose write was short
\* is reported; and a run with no fatal error visits every entry, leaves in
\* the file the full line of every non-directory entry that fits and was not
\* written short, and exits with code 0.
C5_LocalErrors ==
    /\ (LoopLeft /\ "find" \in acquired) => (wfail # 0 \/ nextErr # 0)
    /\ \A i \in 1..Len(wrote) :
          ~TrueIsDir(dir[i]) =>
              /\ ~Fits(dir[i]) => (wrote[i] = 0 /\ ReportedFor("ErrFormat", dir[i].cFileName))
              /\ (Fits(dir[i]) /\ i # wfail) =>
                    \/ wrote[i] = Len(TrueLine(dir[i]))
                    \/ ReportedFor("WarnShort", dir[i].cFileName)
    /\ (pc = "exit" /\ ~Fatal) =>
          /\ exitCode = 0
          /\ Len(wrote) = Len(dir)
          /\ file = ExpectedUpTo(Len(dir))

\* A run with a format error and a short write, then a full line, exit code 0.
C5_Witness ==
    /\ pc = "exit" /\ exitCode = 0
    /\ Reported("ErrFormat") /\ Reported("WarnShort")
    /\ Len(wrote) = 3 /\ wrote[3] = Len(TrueLine(dir[3])) /\ wrote[2] > 0

\* C6: once WriteFile has failed for an entry, the failure is reported, the
\* result is 1, the enumerator is not called again (the cursor stays on the
\* failing entry and no later entry is processed), the file keeps what was
\* written before, and the process exits with code 1 after closing its handles.
C6_HardWriteFailure ==
    wfail # 0 =>
        /\ LoopLeft
        /\ pos = wfail /\ Len(wrote) = wfail /\ wrote[wfail] = 0
        /\ nextErr = 0
        /\ file = ExpectedUpTo(wfail - 1)
        /\ Reported("ErrWrite")
        /\ result = 1
        /\ pc = "exit" => (exitCode = 1 /\ open = {})

\* The write of the second of three entries failed after the first was written.
C6_Witness == pc = "exit" /\ wfail = 2 /\ Len(dir) = 3 /\ file # <<>>

\* C7: a fatal setup failure is reported and ends the run at once with exit
\* code 1: after a directory-creation failure the output file was never
\* opened and is as it was; after an output-file creation failure the
\* enumeration was never started; after an enumeration-start failure nothing
\* was written and the file handle is closed.  A directory-creation result
\* of already-exists leaves the run going, at the opening of the file.
C7_SetupFailures ==
    /\ setup # "none" => (pc = "exit" /\ exitCode = 1 /\ wrote = <<>> /\ pos = 0
                          /\ open = {} /\ SuccessLines = 0)
    /\ setup = "dir" => (acquired = {} /\ FileState = before /\ Reported("ErrCreateDir"))
    /\ setup = "file" => (acquired = {} /\ FileState = before /\ Reported("ErrCreateFile"))
    /\ setup = "find" => (acquired = {"file"} /\ file = <<>> /\ Reported("ErrFindFirst"))
    /\ (setup = "none" /\ dwError = ERROR_ALREADY_EXISTS /\ ~Opened)
          => (pc = "open" /\ exitCode = -1 /\ err = <<>>)

\* The enumeration could not be started in a run that found the output file
\* of an earlier run (C:\tmp existed already) and had truncated it.
C7_Witness == pc = "exit" /\ setup = "find" /\ before = "bytes" /\ Len(dir) > 0

\* C8 as stated: after a run that found a file left by an earlier run, the
\* file holds this run's bytes only.
C8_Original ==
    (pc = "exit" /\ before = "bytes") => file = ExpectedUpTo(Len(wrote))

\* C8, amended: whenever a run that found a file left by an earlier run has
\* opened the output file, the file holds this run's bytes only.
C8_Amended ==
    (before = "bytes" /\ Opened) => file = ExpectedUpTo(Len(wrote))

\* A second run over a directory with nothing to write emptied the file.
C8_Witness == pc = "exit" /\ before = "bytes" /\ Opened /\ exitCode = 0 /\ file = <<>>

\* C9: when FindNextFileA stopped with the no-more-entries code the check
\* after the loop reports nothing and leaves the result 0; when it stopped
\* with another code that code is reported and the result is 1; either way
\* the file keeps every byte written, and the process exits with that result
\* after closing both handles.
C9_EndOfEnumeration ==
    /\ (nextErr = ERROR_NO_MORE_FILES /\ pc \in {"cleanup", "exit"})
          => (result = 0 /\ ~Reported("ErrEnum"))
    /\ (nextErr \notin {0, ERROR_NO_MORE_FILES} /\ pc \in {"cleanup", "exit"})
          => (result = 1 /\ ReportedCode("ErrEnum", nextErr))
    /\ nextErr # 0 => (Len(wrote) = pos /\ file = ExpectedUpTo(pos))
    /\ (nextErr # 0 /\ pc = "exit")
          => /\ exitCode = (IF nextErr = ERROR_NO_MORE_FILES THEN 0 ELSE 1)
             /\ open = {}
             /\ \A h \in Handles : closes[h] = 1

\* The enumeration broke off with an error after a line had been written.
C9_Witness ==
    /\ pc = "exit" /\ nextErr \notin {0, ERROR_NO_MORE_FILES}
    /\ file # <<>> /\ pos < Len(dir)

\* C10: the enumeration-error message is reported only when FindNextFileA
\* itself returned 0 with a code other than no-more-entries; a run whose
\* loop was left by the break after a hard write failure reports no
\* enumeration error.
C10_EnumMessageOnlyForEnumErrors ==
    /\ Reported("ErrEnum") => nextErr \notin {0, ERROR_NO_MORE_FILES}
    /\ wfail # 0 => ~Reported("ErrEnum")

====
